---- MODULE Spec2Model ----
(***************************************************************************)
(* State-machine model of the MPPI controller of src/src/planning/         *)
(* mm_planner.py: construction, command, reset and get_rollouts.           *)
(*                                                                         *)
(* Tensor elements are floating-point numbers.  A number is modelled as a  *)
(* pair <<n, d>>: d > 0 is the exact rational n/d in lowest terms,         *)
(* <<1, 0>> is +inf, <<-1, 0>> is -inf and <<0, 0>> is NaN, with the IEEE  *)
(* rules for the special values.  Rounding is not modelled.                *)
(***************************************************************************)
EXTENDS Integers, Sequences, FiniteSets, TLC

\* ------------------------------------------------------------------------
\* Floating-point numbers
\* ------------------------------------------------------------------------

NaN == <<0, 0>>
PosInf == <<1, 0>>
NegInf == <<-1, 0>>

IAbs(i) == IF i < 0 THEN -i ELSE i

RECURSIVE GCD(_, _)
GCD(a, b) == IF b = 0 THEN a ELSE GCD(b, a % b)

\* the rational n/d, d > 0, in lowest terms
Rat(n, d) ==
    LET Over(g) == <<n \div g, d \div g>>
    IN  Over(GCD(IAbs(n), d))

\* an integer as a number
R(i) == <<i, 1>>

IsNaN(x) == x = NaN
IsFinite(x) == x[2] > 0
Sgn(x) == IF x[1] > 0 THEN 1 ELSE IF x[1] < 0 THEN -1 ELSE 0

FNeg(x) == <<-x[1], x[2]>>

FAdd(x, y) ==
    LET Over(g) == Rat(x[1] * (y[2] \div g) + y[1] * (x[2] \div g), (x[2] \div g) * y[2])
    IN  IF x[2] = 1 /\ y[2] = 1 THEN <<x[1] + y[1], 1>>
        ELSE IF IsNaN(x) \/ IsNaN(y) THEN NaN
        ELSE IF IsFinite(x) /\ IsFinite(y) THEN Over(GCD(x[2], y[2]))
        ELSE IF IsFinite(x) THEN y
        ELSE IF IsFinite(y) THEN x
        ELSE IF x = y THEN x ELSE NaN

FSub(x, y) == FAdd(x, FNeg(y))

FMul(x, y) ==
    LET Over(g1, g2) == <<(x[1] \div g1) * (y[1] \div g2), (x[2] \div g2) * (y[2] \div g1)>>
    IN  IF x[2] = 1 /\ y[2] = 1 THEN <<x[1] * y[1], 1>>
        ELSE IF IsNaN(x) \/ IsNaN(y) THEN NaN
        ELSE IF IsFinite(x) /\ IsFinite(y)
             THEN Over(GCD(IAbs(x[1]), y[2]), GCD(IAbs(y[1]), x[2]))
        ELSE IF Sgn(x) * Sgn(y) = 0 THEN NaN
        ELSE <<Sgn(x) * Sgn(y), 0>>

\* 1. / x
FRecip(x) ==
    IF IsNaN(x) THEN NaN
    ELSE IF ~IsFinite(x) THEN R(0)
    ELSE IF x[1] = 0 THEN PosInf
    ELSE IF x[1] > 0 THEN <<x[2], x[1]>>
    ELSE <<-x[2], -x[1]>>

FAbs(x) == <<IAbs(x[1]), x[2]>>

\* x < y; every comparison with NaN is false
FLt(x, y) ==
    IF IsNaN(x) \/ IsNaN(y) THEN FALSE
    ELSE IF IsFinite(x) /\ IsFinite(y) THEN FAdd(x, FNeg(y))[1] < 0
    ELSE IF IsFinite(x) THEN y = PosInf
    ELSE IF IsFinite(y) THEN x = NegInf
    ELSE x = NegInf /\ y = PosInf

FLe(x, y) == ~IsNaN(x) /\ ~IsNaN(y) /\ ~FLt(y, x)

\* elementwise minimum and maximum as torch computes them: NaN propagates
FMin2(x, y) == IF IsNaN(x) \/ IsNaN(y) THEN NaN ELSE IF FLt(y, x) THEN y ELSE x
FMax2(x, y) == IF IsNaN(x) \/ IsNaN(y) THEN NaN ELSE IF FLt(x, y) THEN y ELSE x

\* exp(-k) for k = 0, 1, 2, ... in sixteenths; it underflows to 0 from k = 4 on
ExpKnot(k) == IF k = 0 THEN 16 ELSE IF k = 1 THEN 6 ELSE IF k = 2 THEN 2
              ELSE IF k = 3 THEN 1 ELSE 0

\* exp(-d) for a finite d >= 0, on the grid of the integers: the exponent is
\* rounded down, so that exp(-0) = 1 exactly and exp is non-increasing
ExpNeg(d) == Rat(ExpKnot(d[1] \div d[2]), 16)

\* torch.exp
FExp(x) ==
    IF IsNaN(x) THEN NaN
    ELSE IF x = PosInf THEN PosInf
    ELSE IF x = NegInf THEN R(0)
    ELSE IF x[1] <= 0 THEN ExpNeg(FNeg(x))
    ELSE FRecip(ExpNeg(x))

\* ------------------------------------------------------------------------
\* Tensors: a vector is a sequence of numbers, a matrix a sequence of rows.
\* The state argument of a call keeps its shape: [shape, data] with the
\* elements in row-major order.  None is the empty sequence.
\* ------------------------------------------------------------------------

None == <<>>

\* TLC keeps a function [i \in S |-> e] unevaluated and evaluates e again at
\* every application; comparing the function makes TLC enumerate it once.
Eval(f) == IF f = <<>> THEN <<>> ELSE f

RECURSIVE FSumTo(_, _)
FSumTo(s, n) == IF n = 0 THEN R(0) ELSE FAdd(FSumTo(s, n - 1), s[n])

\* torch.sum over a sequence of numbers
FSum(s) == FSumTo(s, Len(s))

RECURSIVE FMinTo(_, _)
FMinTo(s, n) == IF n = 1 THEN s[1] ELSE FMin2(FMinTo(s, n - 1), s[n])

\* a faulty beta that is the first entry instead of the least; C24_EtaRange
\* tells it from FMin
FFirst(s) == s[1]

\* torch.min over a non-empty sequence of numbers
FMin(s) == FMinTo(s, Len(s))

VAdd(u, v) == Eval([j \in 1..Len(u) |-> FAdd(u[j], v[j])])
VSub(u, v) == Eval([j \in 1..Len(u) |-> FSub(u[j], v[j])])
VScale(c, v) == Eval([j \in 1..Len(v) |-> FMul(c, v[j])])
VAbs(v) == Eval([j \in 1..Len(v) |-> FAbs(v[j])])
VZeros(n) == Eval([j \in 1..n |-> R(0)])

\* v @ M for a vector v (n) and a matrix M (n x m)
VMatMul(v, M) ==
    Eval([j \in 1..Len(M[1]) |-> FSum(Eval([k \in 1..Len(v) |-> FMul(v[k], M[k][j])]))])

RECURSIVE Prod(_)
Prod(shape) == IF shape = <<>> THEN 1 ELSE Head(shape) * Prod(Tail(shape))

Numel(x) == Len(x.data)

Max2(a, b) == IF a < b THEN b ELSE a

\* whether a value of rows x width (r2, w2) broadcasts against (r1, w1)
Broadcastable(r1, w1, r2, w2) ==
    /\ r1 = r2 \/ r1 = 1 \/ r2 = 1
    /\ w1 = w2 \/ w1 = 1 \/ w2 = 1

\* elementwise X + Y of two matrices under torch's broadcasting rules
BAdd(X, Y) ==
    LET r == Max2(Len(X), Len(Y))
        w == Max2(Len(X[1]), Len(Y[1]))
        At(M, i, j) == M[IF Len(M) = 1 THEN 1 ELSE i][IF Len(M[1]) = 1 THEN 1 ELSE j]
    IN  Eval([i \in 1..r |-> Eval([j \in 1..w |-> FAdd(At(X, i, j), At(Y, i, j))])])

\* ------------------------------------------------------------------------
\* The boundaries: the dynamics function F and the trajectory cost are
\* supplied by the caller.  The model draws them from small families.
\* ------------------------------------------------------------------------

\* The outcome of a call that may raise: err = "" and the value, or the error.
Ok(v) == [err |-> "", val |-> v]
Raise(e) == [err |-> e, val |-> <<>>]

\* F(state, u) or F(state, u, t): state is B x n, u is B x m, t is None when
\* the dynamics is not step dependent.
\*   identity:   returns state
\*   integrator: state + u (+ t), elementwise with torch broadcasting
\*   linear:     state @ I + u @ ones(nu, nx) (+ t); the matrix products
\*               raise when state is not nx wide or u is not nu wide
\*   batched:    the integrator of a caller who wrote it for the batch of
\*               samples: it raises when state is a single row
F(kind, nx, nu, X, u, t) ==
    LET step(Y) == IF t = None THEN Y
                   ELSE Eval([i \in 1..Len(Y) |-> Eval([j \in 1..Len(Y[1]) |-> FAdd(Y[i][j], R(t[1]))])])
    IN  CASE kind = "identity" -> Ok(X)
          [] kind = "integrator" ->
                IF Broadcastable(Len(X), Len(X[1]), Len(u), Len(u[1]))
                THEN Ok(step(BAdd(X, u)))
                ELSE Raise("dynamics: shape mismatch")
          [] kind = "batched" ->
                IF Len(X) = 1 THEN Raise("dynamics: expected a batch")
                ELSE IF Broadcastable(Len(X), Len(X[1]), Len(u), Len(u[1]))
                THEN Ok(step(BAdd(X, u)))
                ELSE Raise("dynamics: shape mismatch")
          [] kind = "linear" ->
                IF Len(X[1]) = nx /\ Len(u[1]) = nu /\ Len(X) = Len(u)
                THEN Ok(step(Eval([i \in 1..Len(X) |-> Eval([j \in 1..nx |-> FAdd(X[i][j], FSum(u[i]))])])))
                ELSE Raise("dynamics: shape mismatch")

\* faulty arguments that hold t whatever step_dependency is;
\* C20_DynamicsCalls tells them from DynamicsArgs
DynamicsArgsWithT(c, X, u, t) == <<X, u, t>>

\* MPPI._dynamics, the arguments self.F is called with: t is passed on only
\* when step_dependency is set
DynamicsArgs(c, X, u, t) == IF c.step_dependency THEN <<X, u, t>> ELSE <<X, u>>

\* MPPI._dynamics: self.F on those arguments
Dynamics(c, X, u, t) ==
    LET Call(a) == F(c.F, c.nx, c.nu, a[1], a[2], IF Len(a) = 3 THEN <<a[3]>> ELSE None)
    IN  Call(DynamicsArgs(c, X, u, t))

\* trajectory_cost(states, actions): states is K x T x w, actions K x T x nu;
\* one cost per trajectory.
\*   zero:       0
\*   abs_state:  the sum of |x| over the trajectory's states
\*   abs_action: the sum of |a| over the trajectory's actions
\*   barrier:    +inf when a state element exceeds 1, NaN when one is below
\*               -1 (and none exceeds 1), else 0
\*   checked:    0, after CostError found nothing to raise
TrajectoryCost(kind, sts, acts) ==
    LET SumAbs(traj) == FSum(Eval([t \in 1..Len(traj) |-> FSum(VAbs(traj[t]))]))
        Some(traj, P(_)) == \E t \in 1..Len(traj) : \E j \in 1..Len(traj[t]) : P(traj[t][j])
        Above(x) == FLt(R(1), x)
        Below(x) == FLt(x, R(-1))
    IN  Eval([i \in 1..Len(sts) |->
            CASE kind \in {"zero", "checked"} -> R(0)
              [] kind = "abs_state" -> SumAbs(sts[i])
              [] kind = "abs_action" -> SumAbs(acts[i])
              [] kind = "barrier" ->
                    IF Some(sts[i], Above) THEN PosInf
                    ELSE IF Some(sts[i], Below) THEN NaN
                    ELSE R(0)])

\* what trajectory_cost(states, actions) raises, "" if it returns: the checked
\* cost raises when a state element of some trajectory exceeds 1
CostError(kind, sts) ==
    IF /\ kind = "checked"
       /\ \E i \in 1..Len(sts) : \E t \in 1..Len(sts[i]) : \E j \in 1..Len(sts[i][t]) :
              FLt(R(1), sts[i][t][j])
    THEN "trajectory_cost: state out of range"
    ELSE ""

\* ------------------------------------------------------------------------
\* MPPI
\* ------------------------------------------------------------------------

\* MPPI.__init__, the bounds: if only one of u_min and u_max is given, the
\* other is its negation
Bounds(u_min, u_max) ==
    LET Max(min1) == [u_min |-> min1,
                      u_max |-> IF min1 # None /\ u_max = None THEN VScale(R(-1), min1) ELSE u_max]
    IN  Max(IF u_max # None /\ u_min = None THEN VScale(R(-1), u_max) ELSE u_min)

\* torch.inverse of the diagonal covariance matrix diag(sigma)
Inverse(sigma) ==
    Eval([k \in 1..Len(sigma) |-> Eval([j \in 1..Len(sigma) |->
        IF k = j THEN FRecip(sigma[k]) ELSE R(0)])])

NoTensor == [shape |-> <<>>, data |-> <<>>]

\* MPPI.__init__: a holds the arguments; a.draw is what noise_dist.sample((T,))
\* returns when U_init is None
Construct(a) ==
    LET With(nu, b) ==
            [K |-> a.num_samples,
             T |-> a.horizon,
             nx |-> a.nx,
             nu |-> nu,
             lambda_ |-> a.lambda_,
             u_min |-> b.u_min,
             u_max |-> b.u_max,
             u_scale |-> a.u_scale,
             u_per_command |-> a.u_per_command,
             noise_sigma_inv |-> Inverse(a.noise_sigma),
             U |-> IF a.U_init = None THEN a.draw ELSE a.U_init,
             u_init |-> IF a.u_init = None THEN VZeros(nu) ELSE a.u_init,
             step_dependency |-> a.step_dependent_dynamics,
             F |-> a.dynamics,
             trajectory_cost |-> a.trajectory_cost,
             sample_null_action |-> a.sample_null_action,
             noise_abs_cost |-> a.noise_abs_cost,
             state |-> NoTensor,
             cost_total |-> None,
             cost_total_non_zero |-> None,
             omega |-> None,
             states |-> None,
             actions |-> None,
             noise |-> None,
             perturbed_action |-> None]
    IN  With(Len(a.noise_sigma), Bounds(a.u_min, a.u_max))

\* torch.roll(U, -1, dims=0)
Roll(U) == Eval([t \in 1..Len(U) |-> U[(t % Len(U)) + 1]])

\* a faulty shift that leaves out U[-1] = u_init, so that the dropped entry
\* wraps around to the end; C1_ShiftLeft tells it from Shift
ShiftWrapping(U, u_init) == Roll(U)

\* a faulty command that leaves the shift out; C23_FailedCallAdvances tells
\* it from Shift
ShiftOmitted(U, u_init) == U

\* shift command 1 time step: roll, then U[-1] = u_init
Shift(U, u_init) == [Roll(U) EXCEPT ![Len(U)] = u_init]

\* a faulty rescaling that does not subtract beta; C3_Weights tells it from
\* EnsureNonZero
EnsureNonZeroRaw(cost, beta, factor) ==
    Eval([i \in 1..Len(cost) |-> FExp(FMul(FNeg(factor), cost[i]))])

\* _ensure_non_zero(cost, beta, factor) = exp(-factor * (cost - beta))
EnsureNonZero(cost, beta, factor) ==
    Eval([i \in 1..Len(cost) |-> FExp(FMul(FNeg(factor), FSub(cost[i], beta)))])

\* what x.clamp(min=None, max=None) raises
ClampNone == "torch.clamp: At least one of 'min' or 'max' must not be None"

\* a faulty clamp that enforces the upper bound only;
\* C18_UpdateWithinBounds tells it from Clamp
ClampMaxOnly(x, lo, hi) == Eval([j \in 1..Len(x) |-> FMin2(x[j], hi[j])])

\* x.clamp(min=lo, max=hi) on one action vector
Clamp(x, lo, hi) == Eval([j \in 1..Len(x) |-> FMin2(FMax2(x[j], lo[j]), hi[j])])

\* the K x n batch the rollout starts from: the state itself when its shape
\* is (K, nx), else state.view(1, -1).repeat(K, 1)
StateBatch(K, nx, st) ==
    IF st.shape = <<K, nx>>
    THEN Eval([i \in 1..K |-> Eval([j \in 1..nx |-> st.data[(i - 1) * nx + j]])])
    ELSE Eval([i \in 1..K |-> st.data])

\* the first n steps of the rollout loop of _compute_total_cost_batch:
\* sts and acts are the lists self.states and self.actions, cur the state
\* batch, log the arguments of the calls of self.F made so far
RECURSIVE RolloutTo(_, _, _, _)
RolloutTo(c, X0, pa, n) ==
    LET Append1(prev, u, d) ==
            IF d.err # "" THEN [prev EXCEPT !.err = d.err]
            ELSE [err |-> "", sts |-> Append(prev.sts, d.val),
                  acts |-> Append(prev.acts, u), cur |-> d.val, log |-> prev.log]
        Step(prev, u) ==
            IF prev.err # "" THEN prev
            ELSE Append1([prev EXCEPT !.log = Append(@, DynamicsArgs(c, prev.cur, u, n - 1))],
                         u, Dynamics(c, prev.cur, u, n - 1))
    IN  IF n = 0 THEN [err |-> "", sts |-> <<>>, acts |-> <<>>, cur |-> X0, log |-> <<>>]
        ELSE Step(RolloutTo(c, X0, pa, n - 1),
                  Eval([i \in 1..c.K |-> VScale(c.u_scale, pa[i][n])]))

\* torch.stack(list, dim=1): from T entries of K rows to K rows of T entries
Stack(K, list) == Eval([i \in 1..K |-> Eval([t \in 1..Len(list) |-> list[t][i]])])

\* a faulty null action that is u_init instead of 0; C5_NullActionZero tells
\* it from NullAction
NullActionInit(s, pa) ==
    IF s.sample_null_action
    THEN [pa EXCEPT ![s.K] = Eval([t \in 1..s.T |-> s.u_init])]
    ELSE pa

\* if self.sample_null_action: self.perturbed_action[self.K - 1] = 0, where pa
\* is the K x T x nu batch U + noise
NullAction(s, pa) ==
    IF s.sample_null_action
    THEN [pa EXCEPT ![s.K] = Eval([t \in 1..s.T |-> VZeros(s.nu)])]
    ELSE pa

\* a faulty cost call made after self.actions /= self.u_scale, on the unscaled
\* actions; C19_CostGetsScaledActions tells it from TrajCost
TrajCostUnscaled(s, states, actions) ==
    IF s.trajectory_cost = "None" THEN Eval([i \in 1..s.K |-> R(0)])
    ELSE TrajectoryCost(s.trajectory_cost, states,
                        Eval([i \in 1..s.K |-> Eval([t \in 1..s.T |->
                            VScale(FRecip(s.u_scale), actions[i][t])])]))

\* traj_cost = self.trajectory_cost(self.states, self.actions) if a
\* trajectory cost is configured, on the stacked states and actions
TrajCost(s, states, actions) ==
    IF s.trajectory_cost = "None" THEN Eval([i \in 1..s.K |-> R(0)])
    ELSE TrajectoryCost(s.trajectory_cost, states, actions)

\* a faulty noise that still holds U (the subtraction left out);
\* C17_EffectiveNoise tells it from EffectiveNoise
NoiseWithU(clamped, U) == clamped

\* self.noise = self.perturbed_action - self.U, after the clamp
EffectiveNoise(clamped, U) ==
    Eval([i \in 1..Len(clamped) |-> Eval([t \in 1..Len(U) |-> VSub(clamped[i][t], U[t])])])

\* a faulty action cost that takes torch.abs(self.noise) whatever
\* noise_abs_cost is; C21_TotalCost tells it from ActionCost
ActionCostAbs(s, noise) ==
    Eval([i \in 1..s.K |-> Eval([t \in 1..s.T |->
        VMatMul(VScale(s.lambda_, VAbs(noise[i][t])), s.noise_sigma_inv)])])

\* action_cost = self.lambda_ * self.noise @ self.noise_sigma_inv, on
\* torch.abs(self.noise) with noise_abs_cost
ActionCost(s, noise) ==
    Eval([i \in 1..s.K |-> Eval([t \in 1..s.T |->
        VMatMul(VScale(s.lambda_, IF s.noise_abs_cost THEN VAbs(noise[i][t])
                                  ELSE noise[i][t]),
                s.noise_sigma_inv)])])

\* the body of _compute_total_cost_batch on the controller s from
\* self.cost_total = zeros on, where nz is what noise_dist.sample((K, T))
\* returns.  The result is the error raised, if any, and the controller as
\* the call leaves it.
CostBatchFrom(s, nz, zeros) ==
    LET \* self.cost_total += traj_cost; self.actions /= self.u_scale;
        \* self.cost_total += perturbation_cost
        Total(clamped, noise, states, actions, traj_cost, perturbation_cost) ==
            [err |-> "",
             self |-> [s EXCEPT
                !.cost_total = Eval([i \in 1..s.K |->
                    FAdd(FAdd(zeros[i], traj_cost[i]), perturbation_cost[i])]),
                !.noise = noise,
                !.perturbed_action = clamped,
                !.states = states,
                !.actions = Eval([i \in 1..s.K |-> Eval([t \in 1..s.T |->
                    VScale(FRecip(s.u_scale), actions[i][t])])])]]
        \* traj_cost = self.trajectory_cost(self.states, self.actions) and
        \* perturbation_cost = torch.sum(self.U * action_cost, dim=(1, 2))
        Stacked(clamped, noise, action_cost, states, actions) ==
            IF s.trajectory_cost # "None" /\ CostError(s.trajectory_cost, states) # ""
            THEN [err |-> CostError(s.trajectory_cost, states),
                  self |-> [s EXCEPT !.cost_total = zeros, !.noise = noise,
                                     !.perturbed_action = clamped,
                                     !.states = states, !.actions = actions]]
            ELSE
            Total(clamped, noise, states, actions, TrajCost(s, states, actions),
                  Eval([i \in 1..s.K |->
                      FSum(Eval([t \in 1..s.T |->
                          FSum(Eval([j \in 1..s.nu |->
                              FMul(s.U[t][j], action_cost[i][t][j])]))]))]))
        \* after the rollout loop: torch.stack of the lists, unless F raised
        Rolled(clamped, noise, action_cost, ro) ==
            IF ro.err # ""
            THEN [err |-> ro.err,
                  self |-> [s EXCEPT !.cost_total = zeros, !.noise = noise,
                                     !.perturbed_action = clamped,
                                     !.states = ro.sts, !.actions = ro.acts]]
            ELSE Stacked(clamped, noise, action_cost, Stack(s.K, ro.sts), Stack(s.K, ro.acts))
        \* the action cost, and the rollout loop
        Bounded(clamped, noise) ==
            Rolled(clamped, noise, ActionCost(s, noise),
                   RolloutTo(s, StateBatch(s.K, s.nx, s.state), clamped, s.T))
        \* self.noise = self.perturbed_action - self.U
        Clamped(clamped) == Bounded(clamped, EffectiveNoise(clamped, s.U))
        \* self.perturbed_action = self.perturbed_action.clamp(min=self.u_min,
        \* max=self.u_max)
        Perturbed(pa) ==
            IF s.u_min = None /\ s.u_max = None
            THEN [err |-> ClampNone,
                  self |-> [s EXCEPT !.cost_total = zeros, !.noise = nz,
                                     !.perturbed_action = pa]]
            ELSE Clamped(Eval([i \in 1..s.K |-> Eval([t \in 1..s.T |->
                     Clamp(pa[i][t], s.u_min, s.u_max)])]))
    \* self.perturbed_action = self.U + self.noise, and the null action
    IN  Perturbed(NullAction(s,
            Eval([i \in 1..s.K |-> Eval([t \in 1..s.T |-> VAdd(s.U[t], nz[i][t])])])))

\* a faulty _compute_total_cost_batch that leaves out self.cost_total =
\* torch.zeros(K) and adds to the costs of the call before;
\* C13_OnlyUCarried tells it from ComputeTotalCostBatch
ComputeTotalCostBatchStale(s, nz) ==
    CostBatchFrom(s, nz, IF s.cost_total = None THEN Eval([i \in 1..s.K |-> R(0)])
                         ELSE s.cost_total)

\* MPPI._compute_total_cost_batch: self.cost_total = torch.zeros(self.K), then
\* the body
ComputeTotalCostBatch(s, nz) == CostBatchFrom(s, nz, Eval([i \in 1..s.K |-> R(0)]))

\* state.view(-1, nx) of get_rollouts
ViewRows(st, nx) ==
    IF Numel(st) % nx # 0 THEN Raise("view: shape is invalid for input size")
    ELSE Ok(Eval([r \in 1..(Numel(st) \div nx) |-> Eval([j \in 1..nx |-> st.data[(r - 1) * nx + j]])]))

\* dst[:, k] = X for a destination slice of shape (rows, width)
SetSlice(rows, width, X) ==
    IF /\ Len(X) \in {rows, 1}
       /\ Len(X[1]) \in {width, 1}
    THEN Ok(Eval([r \in 1..rows |-> Eval([j \in 1..width |->
                X[IF Len(X) = 1 THEN 1 ELSE r][IF Len(X[1]) = 1 THEN 1 ELSE j]])]))
    ELSE Raise("setitem: shape mismatch")

\* the first n steps of the loop of get_rollouts: traj is states[:, 1:n+1]
\* as a list of num_rollouts x nx batches, cur is states[:, n]
RECURSIVE ReplayTo(_, _, _, _)
ReplayTo(s, num_rollouts, X0, n) ==
    LET w == s.nu \div num_rollouts
        Put(prev, put) ==
            IF put.err # "" THEN [prev EXCEPT !.err = put.err]
            ELSE [err |-> "", traj |-> Append(prev.traj, put.val), cur |-> put.val]
        Moved(prev, d) ==
            IF d.err # "" THEN [prev EXCEPT !.err = d.err]
            ELSE Put(prev, SetSlice(num_rollouts, s.nx, d.val))
        Step(prev) ==
            IF prev.err # "" THEN prev
            ELSE IF s.nu % num_rollouts # 0
                 THEN [prev EXCEPT !.err = "view: shape is invalid for input size"]
            ELSE Moved(prev,
                       Dynamics(s, prev.cur,
                                Eval([r \in 1..num_rollouts |-> Eval([j \in 1..w |->
                                    FMul(s.u_scale, s.U[n][(r - 1) * w + j])])]),
                                n - 1))
    IN  IF n = 0 THEN [err |-> "", traj |-> <<>>, cur |-> X0]
        ELSE Step(ReplayTo(s, num_rollouts, X0, n - 1))

\* the body of get_rollouts: the error raised, if any, or the returned
\* states[:, 1:] (num_rollouts x T x nx)
RolloutStates(s, st, num_rollouts) ==
    LET Returned(re) ==
            IF re.err # "" THEN Raise(re.err) ELSE Ok(Stack(num_rollouts, re.traj))
        Loop(first) ==
            IF first.err # "" THEN Raise(first.err)
            ELSE Returned(ReplayTo(s, num_rollouts, first.val, Len(s.U)))
        Repeat(v) ==
            IF v.err # "" THEN Raise(v.err)
            ELSE Loop(SetSlice(num_rollouts, s.nx,
                               IF Len(v.val) = 1
                               THEN Eval([r \in 1..num_rollouts |-> v.val[1]])
                               ELSE v.val))
    IN  Repeat(ViewRows(st, s.nx))

\* a faulty get_rollouts that leaves U rolled; C6_GetRolloutsPure tells it
\* from GetRollouts
GetRolloutsRolling(s, st, num_rollouts) ==
    LET Leave(out) == [err |-> out.err, val |-> out.val, self |-> [s EXCEPT !.U = Roll(s.U)]]
    IN  Leave(RolloutStates(s, st, num_rollouts))

\* MPPI.get_rollouts(state, num_rollouts): what the call raises or returns,
\* and the controller as the call leaves it
GetRollouts(s, st, num_rollouts) ==
    LET Leave(out) == [err |-> out.err, val |-> out.val, self |-> s]
    IN  Leave(RolloutStates(s, st, num_rollouts))

\* a faulty update that adds the noise of the best sample only;
\* C2_WeightedUpdate tells it from Update
UpdateBest(U, omega, noise) ==
    LET Add(best) == Eval([t \in 1..Len(U) |-> VAdd(U[t], noise[best][t])])
    IN  Add(CHOOSE i \in 1..Len(omega) : \A k \in 1..Len(omega) : ~FLt(omega[i], omega[k]))

\* a faulty update that adds the noise of every sample unweighted;
\* C15_UniformWeights tells it from Update
UpdateSum(U, omega, noise) ==
    Eval([t \in 1..Len(U) |-> Eval([j \in 1..Len(U[t]) |->
        FAdd(U[t][j], FSum(Eval([i \in 1..Len(omega) |-> noise[i][t][j]])))])])

\* a faulty update that adds half of the weighted noise;
\* C22_WeightedMean tells it from Update
UpdateHalved(U, omega, noise) ==
    Eval([t \in 1..Len(U) |-> Eval([j \in 1..Len(U[t]) |->
        FAdd(U[t][j], FMul(Rat(1, 2),
             FSum(Eval([i \in 1..Len(omega) |-> FMul(omega[i], noise[i][t][j])]))))])])

\* the weighted update of command: U[t] += sum_i omega[i] * noise[i, t]
Update(U, omega, noise) ==
    Eval([t \in 1..Len(U) |-> Eval([j \in 1..Len(U[t]) |->
        FAdd(U[t][j], FSum(Eval([i \in 1..Len(omega) |-> FMul(omega[i], noise[i][t][j])])))])])

\* a faulty slice U[-n:], the last n entries; C11_ReturnedActions tells it
\* from Take
TakeLast(U, n) ==
    Eval([t \in 1..(IF n < Len(U) THEN n ELSE Len(U)) |->
        U[Len(U) - (IF n < Len(U) THEN n ELSE Len(U)) + t]])

\* U[:n]
Take(U, n) == Eval([t \in 1..(IF n < Len(U) THEN n ELSE Len(U)) |-> U[t]])

\* a faulty command that catches what a call raises and returns the plan it
\* has; C16_BoundaryErrorsPropagate tells it from Raised
RaisedCaught(err, where, after) ==
    [err |-> "", where |-> "", actions |-> after.U[1], rollout |-> <<>>, self |-> after]

\* an exception leaves command at the call that raised it: nothing is caught
\* and nothing is returned
Raised(err, where, after) ==
    [err |-> err, where |-> where, actions |-> <<>>, rollout |-> <<>>, self |-> after]

\* MPPI.command(state) on the controller s, where nz is the noise the call
\* draws.  The result is the error raised, if any, with the method that
\* raised it, the returned pair and the controller as the call leaves it.
Command(s, st, nz) ==
    LET \* actions = self.u_scale * self.U[:self.u_per_command], and its first
        \* entry alone if u_per_command is 1
        Actions(taken) ==
            IF s.u_per_command = 1 THEN VScale(s.u_scale, taken[1])
            ELSE Eval([t \in 1..Len(taken) |-> VScale(s.u_scale, taken[t])])
        \* rollout = self.get_rollouts(state); return actions, rollout
        Returned(after, rollout) ==
            IF rollout.err # ""
            THEN Raised(rollout.err, "get_rollouts", after)
            ELSE [err |-> "", where |-> "",
                  actions |-> Actions(Take(after.U, s.u_per_command)),
                  rollout |-> rollout.val, self |-> after]
        Planned(after) == Returned(after, GetRollouts(after, st, 1))
        \* self.U[t] += torch.sum(self.omega.view(-1, 1) * self.noise[:, t], dim=0)
        Weighted(c, non_zero, omega) ==
            Planned([c EXCEPT !.cost_total_non_zero = non_zero, !.omega = omega,
                              !.U = Update(c.U, omega, c.noise)])
        \* eta = torch.sum(self.cost_total_non_zero); self.omega = (1. / eta) * ...
        Rescaled(c, non_zero) ==
            Weighted(c, non_zero, VScale(FRecip(FSum(non_zero)), non_zero))
        \* beta = torch.min(cost_total); self.cost_total_non_zero = ...
        Costed(cb) ==
            IF cb.err # ""
            THEN Raised(cb.err, "_compute_total_cost_batch", cb.self)
            ELSE Rescaled(cb.self,
                          EnsureNonZero(cb.self.cost_total, FMin(cb.self.cost_total),
                                        FRecip(s.lambda_)))
    \* the shift, self.state = state and cost_total = self._compute_total_cost_batch()
    IN  Costed(ComputeTotalCostBatch([s EXCEPT !.U = Shift(s.U, s.u_init), !.state = st], nz))

\* a faulty reset that adds the draws to the plan it had; C12_ResetFresh tells
\* it from Reset
ResetAdding(s, draw) == [s EXCEPT !.U = Eval([t \in 1..Len(draw) |-> VAdd(s.U[t], draw[t])])]

\* MPPI.reset, where draw is what noise_dist.sample((T,)) returns
Reset(s, draw) == [s EXCEPT !.U = draw]

\* ------------------------------------------------------------------------
\* The state machine
\* ------------------------------------------------------------------------

VARIABLES
    self,   \* the MPPI object: its configuration and its fields
    form,   \* the form of the state the caller of this run passes
    ret,    \* the last call: its arguments, the noise it drew, what it returned
            \* or raised, and the call it came after
    calls,  \* the number of calls made on the controller
    agent   \* the BaseAgent object and the locals of its do_episode

vars == <<self, form, ret, calls, agent>>

\* the number of calls of a run
MaxCalls == 2
\* get_rollouts is called with num_rollouts in 1..MaxRollouts
MaxRollouts == 2

\* the values a noise draw takes
NoiseVals == {R(-1), R(1)}

\* what noise_dist.sample(shape) can return
Vectors(nu) == [1..nu -> NoiseVals]
SampleT(T, nu) == [1..T -> Vectors(nu)]
SampleKT(K, T, nu) == [1..K -> SampleT(T, nu)]

\* a tensor of the given shape holding 0, 1, 2, ... in row-major order
Arange(shape) == [shape |-> shape, data |-> Eval([k \in 1..Prod(shape) |-> R(k - 1)])]

\* the state a caller passes: a single state (nx), a batch (K, nx), or one
\* of another dimensionality: (nx + 1) or (1, 1, nx)
Forms == {"single", "batch", "longer", "3d"}
StateArg(s, f) ==
    CASE f = "single" -> Arange(<<s.nx>>)
      [] f = "batch" -> Arange(<<s.K, s.nx>>)
      [] f = "longer" -> Arange(<<s.nx + 1>>)
      [] f = "3d" -> Arange(<<1, 1, s.nx>>)

DefaultArgs ==
    [dynamics |-> "integrator", trajectory_cost |-> "abs_state", nx |-> 1,
     noise_sigma |-> <<R(1)>>, num_samples |-> 2, horizon |-> 2, lambda_ |-> R(1),
     u_min |-> <<R(-1)>>, u_max |-> <<R(2)>>, u_init |-> None,
     U_init |-> <<<<R(0)>>, <<R(1)>>>>, draw |-> None,
     u_scale |-> R(1), u_per_command |-> 1, step_dependent_dynamics |-> FALSE,
     sample_null_action |-> FALSE, noise_abs_cost |-> FALSE]

\* the bounds a caller supplies, as <<u_min, u_max>>
BoundArgs ==
    {<<None, None>>, <<None, <<R(1)>>>>, <<<<R(-1)>>, None>>, <<<<R(-1)>>, <<R(2)>>>>,
     <<None, <<R(-1)>>>>}

\* the initial control sequences a caller supplies
UInits == {<<<<R(0)>>, <<R(1)>>>>, <<<<R(3)>>, <<R(-2)>>>>}

\* runs on a single state: the bounds vary; with the bounds -1 and 2 and with
\* none U_init varies as well, and with the bounds -1 and 2 and the first
\* U_init the null action and u_init
BoundCases ==
    {c \in {[args |-> [DefaultArgs EXCEPT !.u_min = b[1], !.u_max = b[2],
                                          !.sample_null_action = n, !.u_init = ui,
                                          !.U_init = U0],
             form |-> "single"] :
                b \in BoundArgs, n \in BOOLEAN, ui \in {None, <<R(1)>>}, U0 \in UInits} :
        /\ (c.args.sample_null_action \/ c.args.u_init # None) =>
              /\ c.args.u_min = <<R(-1)>> /\ c.args.u_max = <<R(2)>>
              /\ c.args.U_init = DefaultArgs.U_init
        /\ c.args.U_init # DefaultArgs.U_init =>
              \/ c.args.u_min = <<R(-1)>> /\ c.args.u_max = <<R(2)>>
              \/ c.args.u_min = None /\ c.args.u_max = None}

\* runs on a state of every other form, for one sample and for two, with a
\* dynamics that broadcasts and with one that checks the widths
ShapeCases ==
    {[args |-> [DefaultArgs EXCEPT !.num_samples = k, !.nx = d[1], !.dynamics = d[2]],
      form |-> f] :
        f \in Forms \ {"single"}, k \in 1..2, d \in {<<1, "integrator">>, <<2, "linear">>}}

\* runs with each trajectory cost, at the temperature 1 from the first U_init
\* and at the temperature 2 from the second
CostCases ==
    {[args |-> [DefaultArgs EXCEPT !.trajectory_cost = c, !.lambda_ = l[1], !.U_init = l[2]],
      form |-> "single"] :
        c \in {"zero", "None", "abs_action", "barrier"},
        l \in {<<R(1), <<<<R(0)>>, <<R(1)>>>>>>, <<R(2), <<<<R(3)>>, <<R(-2)>>>>>>}}

\* runs with the remaining options away from their defaults
OptionCases ==
    {[args |-> a, form |-> "single"] : a \in
        {[DefaultArgs EXCEPT !.u_scale = R(2)],
         [DefaultArgs EXCEPT !.u_per_command = 2],
         [DefaultArgs EXCEPT !.u_per_command = 2, !.u_scale = R(2)],
         [DefaultArgs EXCEPT !.u_per_command = 3],
         [DefaultArgs EXCEPT !.step_dependent_dynamics = TRUE],
         [DefaultArgs EXCEPT !.noise_abs_cost = TRUE],
         [DefaultArgs EXCEPT !.trajectory_cost = "checked"],
         [DefaultArgs EXCEPT !.dynamics = "batched"],
         [DefaultArgs EXCEPT !.noise_sigma = <<R(2)>>],
         [DefaultArgs EXCEPT !.U_init = None, !.draw = <<<<R(1)>>, <<R(-1)>>>>],
         [DefaultArgs EXCEPT !.horizon = 1, !.U_init = <<<<R(1), R(0)>>>>,
                             !.noise_sigma = <<R(1), R(1)>>, !.nx = 2,
                             !.u_min = <<R(-1), R(-1)>>, !.u_max = <<R(1), R(2)>>],
         [DefaultArgs EXCEPT !.horizon = 3, !.num_samples = 1,
                             !.U_init = <<<<R(0)>>, <<R(1)>>, <<R(-1)>>>>]}}

Cases == BoundCases \cup ShapeCases \cup CostCases \cup OptionCases

NoCall == [op |-> "init", err |-> "", where |-> "", actions |-> <<>>, rollout |-> <<>>,
           state |-> NoTensor, num_rollouts |-> 0, draw |-> None, after |-> ""]

\* no agent has been made
NoAgent == [pc |-> "none"]

\* a controller constructed for one of the cases
InitOf(cases) ==
    /\ \E c \in cases : self = Construct(c.args) /\ form = c.form
    /\ ret = NoCall
    /\ calls = 0
    /\ agent = NoAgent

Init == InitOf(Cases)

DoCommand ==
    /\ calls < MaxCalls
    /\ \E nz \in SampleKT(self.K, self.T, self.nu) :
          \E c \in {Command(self, StateArg(self, form), nz)} :
              /\ self' = c.self
              /\ ret' = [op |-> "command", err |-> c.err, where |-> c.where,
                         actions |-> c.actions, rollout |-> c.rollout,
                         state |-> StateArg(self, form), num_rollouts |-> 1,
                         draw |-> nz, after |-> ret.op]
    /\ calls' = calls + 1
    /\ UNCHANGED <<form, agent>>

DoReset ==
    /\ calls < MaxCalls
    /\ \E draw \in SampleT(self.T, self.nu) :
          /\ self' = Reset(self, draw)
          /\ ret' = [NoCall EXCEPT !.op = "reset", !.draw = draw, !.after = ret.op]
    /\ calls' = calls + 1
    /\ UNCHANGED <<form, agent>>

DoGetRollouts ==
    /\ calls < MaxCalls
    /\ \E n \in 1..MaxRollouts :
          \E g \in {GetRollouts(self, StateArg(self, form), n)} :
              /\ self' = g.self
              /\ ret' = [op |-> "get_rollouts", err |-> g.err,
                         where |-> IF g.err = "" THEN "" ELSE "get_rollouts",
                         actions |-> <<>>, rollout |-> g.val,
                         state |-> StateArg(self, form), num_rollouts |-> n,
                         draw |-> None, after |-> ret.op]
    /\ calls' = calls + 1
    /\ UNCHANGED <<form, agent>>

Next == DoCommand \/ DoReset \/ DoGetRollouts

Spec == Init /\ [][Next]_vars

\* the runs in which a command returns and the next call finds what it left:
\* the costs that are the same for every sample, the options that enter the
\* costs or the rollout, a cost of the actions under a control scale of 2, the
\* null action with a u_init of its own, and the bounds -1 and 1 from u_max
\* alone
CarryCases ==
    {c \in CostCases : c.args.trajectory_cost \in {"zero", "None"}}
    \cup {c \in OptionCases : c.args.u_per_command = 1 \/ c.args.u_scale # R(1)}
    \cup {[args |-> [DefaultArgs EXCEPT !.trajectory_cost = "abs_action", !.u_scale = R(2)],
           form |-> "single"],
          [args |-> [DefaultArgs EXCEPT !.sample_null_action = TRUE, !.u_init = <<R(1)>>],
           form |-> "single"],
          [args |-> [DefaultArgs EXCEPT !.u_min = None, !.u_max = <<R(1)>>],
           form |-> "single"]}

InitCarry == InitOf(CarryCases)

SpecCarry == InitCarry /\ [][Next]_vars

\* ------------------------------------------------------------------------
\* BaseAgent.do_episode
\* ------------------------------------------------------------------------

\* the episodes of a run of do_episode
MaxEpisodes == 3
\* episode_T is in 0..MaxEpisodeT
MaxEpisodeT == 7
\* actions_per_loop is in 1..MaxActionsPerLoop
MaxActionsPerLoop == 2

\* BaseAgent.reset_episode on the agent a: it raises without an environment;
\* else every list of episode_data is emptied and the first ground-truth state
\* is appended.  The for loop of do_episode then starts over range(0,
\* episode_T, actions_per_loop), of which next is the index to come.
ResetEpisode(a) ==
    IF ~a.env
    THEN [a EXCEPT !.pc = "raised",
                   !.err = "Environment has not been made ... cannot reset episode..."]
    ELSE [a EXCEPT !.pc = "for", !.gt_state_history = 1, !.steps = 0, !.next = 0,
                   !.episodes = @ + 1]

\* one pass of the for loop of do_episode while the range has an index left:
\* t is bound to it, self.step() appends a ground-truth state and returns
\* done and info from the environment (fail is False), and the loop is left
\* if done or fail
LoopStep(a, done, info) ==
    [a EXCEPT !.t = <<a.next>>, !.next = @ + a.actions_per_loop,
              !.info = <<info>>, !.steps = @ + 1, !.gt_state_history = @ + 1,
              !.pc = IF done \/ FALSE THEN "after" ELSE "for"]

\* a faulty end of the while loop that returns whatever t is;
\* C25_ReturnsAfterFive tells it from EpisodeCheck
EpisodeCheckAny(a) ==
    IF a.t = None THEN [a EXCEPT !.pc = "raised", !.err = "UnboundLocalError: t"]
    ELSE [a EXCEPT !.pc = "returned", !.result = <<~a.info[1].success, a.t[1]>>]

\* after the for loop: if t < 5: continue, else break, fail = not
\* info['success'] and return fail, t; t is unbound if the range was empty
EpisodeCheck(a) ==
    IF a.t = None THEN [a EXCEPT !.pc = "raised", !.err = "UnboundLocalError: t"]
    ELSE IF a.t[1] < 5 THEN [a EXCEPT !.pc = "while"]
    ELSE [a EXCEPT !.pc = "returned", !.result = <<~a.info[1].success, a.t[1]>>]

\* do_episode is called on an agent made for a task or on one without an
\* environment; the controller plays no part
InitAgent ==
    /\ self = None /\ form = "single" /\ ret = NoCall /\ calls = 0
    /\ \E made \in BOOLEAN, T \in 0..MaxEpisodeT, n \in 1..MaxActionsPerLoop :
          agent = [pc |-> "while", env |-> made, episode_T |-> T, actions_per_loop |-> n,
                   gt_state_history |-> 0, episodes |-> 0, steps |-> 0, next |-> 0,
                   t |-> None, info |-> None, err |-> "", result |-> None]

DoResetEpisode ==
    /\ agent.pc = "while"
    /\ agent.episodes < MaxEpisodes
    /\ agent' = ResetEpisode(agent)
    /\ UNCHANGED <<self, form, ret, calls>>

DoStep ==
    /\ agent.pc = "for"
    /\ agent.next < agent.episode_T
    /\ \E done, success \in BOOLEAN :
          agent' = LoopStep(agent, done, [success |-> success])
    /\ UNCHANGED <<self, form, ret, calls>>

\* the range is exhausted: the for loop ends without a break
DoEndLoop ==
    /\ agent.pc = "for"
    /\ agent.next >= agent.episode_T
    /\ agent' = [agent EXCEPT !.pc = "after"]
    /\ UNCHANGED <<self, form, ret, calls>>

DoEpisodeCheck ==
    /\ agent.pc = "after"
    /\ agent' = EpisodeCheck(agent)
    /\ UNCHANGED <<self, form, ret, calls>>

NextAgent == DoResetEpisode \/ DoStep \/ DoEndLoop \/ DoEpisodeCheck

SpecAgent == InitAgent /\ [][NextAgent]_vars

\* ------------------------------------------------------------------------
\* Properties
\* ------------------------------------------------------------------------

\* the step is a call of op
Calls(op) == calls' = calls + 1 /\ ret'.op = op

\* the call r was a command that got past the clamp of the perturbed actions
Sampled(r) == r.op = "command" /\ r.err # ClampNone

\* the call r was a command that got as far as the weighted update of U
Updated(r) == r.op = "command" /\ r.where # "_compute_total_cost_batch"

\* sum_i omega[i] * noise[i, t] of the controller s
WeightedNoise(s, t) ==
    Eval([j \in 1..s.nu |->
        FSum(Eval([i \in 1..s.K |-> FMul(s.omega[i], s.noise[i][t][j])]))])

\* C1: every command call starts its sampling and update from the pre-call U
\* shifted left by one: entry t is pre-call entry t+1 for t in 0..T-2 and the
\* last entry is u_init.  The perturbed actions are that sequence plus the
\* noise; a call that raises before the update leaves U as that sequence, and
\* else the post-call U[t] is pre-call U[t+1] plus the weighted noise of
\* timestep t, for every t < T-1.
C1_ShiftLeft ==
    [][Calls("command") =>
        LET T == self.T
            start == [t \in 1..T |-> IF t < T THEN self.U[t + 1] ELSE self.u_init]
        IN  /\ Sampled(ret') =>
                   \A i \in 1..self.K : \A t \in 1..T :
                       VSub(self'.perturbed_action[i][t], self'.noise[i][t]) = start[t]
            /\ ~Updated(ret') => self'.U = start
            /\ Updated(ret') =>
                   \A t \in 1..(T - 1) :
                       self'.U[t] = VAdd(self.U[t + 1], WeightedNoise(self', t))]_vars

\* a command returned, on a horizon of two or more, and its update moved
\* both the entry shifted in from the right and the new last entry
C1_Witness ==
    /\ ret.op = "command" /\ ret.err = ""
    /\ self.T >= 2
    /\ self.U[self.T] # self.u_init
    /\ WeightedNoise(self, 1) # VZeros(self.nu)

\* C2: in every command call that reaches the update, for every timestep t,
\* the post-call U[t] is the shifted U[t] plus the sum over all K samples i of
\* omega[i] * noise[i, t].
C2_WeightedUpdate ==
    [][(Calls("command") /\ Updated(ret')) =>
        \A U \in {Shift(self.U, self.u_init)} : \A t \in 1..self.T :
            self'.U[t] = VAdd(U[t], WeightedNoise(self', t))]_vars

\* a command returned in which two samples of different noise both carry
\* weight, so that the update is no single sample's noise
C2_Witness ==
    /\ ret.op = "command" /\ ret.err = ""
    /\ \E i, k \in 1..self.K :
          /\ FLt(R(0), self.omega[i]) /\ FLt(R(0), self.omega[k])
          /\ \E t \in 1..self.T :
                /\ self.noise[i][t] # self.noise[k][t]
                /\ WeightedNoise(self, t) # self.noise[i][t]
                /\ WeightedNoise(self, t) # self.noise[k][t]

\* C3: after every command call whose K total costs are all finite, each
\* weight omega[i] is non-negative, the weights sum to 1, and omega is the
\* normalised exp(-(cost[i] - beta) / lambda_) with beta the least total cost.
C3_Weights ==
    (Updated(ret) /\ \A i \in 1..self.K : IsFinite(self.cost_total[i])) =>
        /\ \A i \in 1..self.K : FLe(R(0), self.omega[i])
        /\ FSum(self.omega) = R(1)
        /\ \E b \in 1..self.K :
              /\ \A i \in 1..self.K : FLe(self.cost_total[b], self.cost_total[i])
              /\ \A i \in 1..self.K :
                    self.cost_total_non_zero[i] =
                        FExp(FNeg(FMul(FSub(self.cost_total[i], self.cost_total[b]),
                                       FRecip(self.lambda_))))
        /\ \A i \in 1..self.K :
              self.omega[i] =
                  FMul(FRecip(FSum(self.cost_total_non_zero)), self.cost_total_non_zero[i])

\* a command with finite costs gave a sample a weight strictly between 0 and 1
C3_Witness ==
    /\ Updated(ret)
    /\ \A i \in 1..self.K : IsFinite(self.cost_total[i])
    /\ \E i \in 1..self.K : FLt(R(0), self.omega[i]) /\ FLt(self.omega[i], R(1))

\* C4: in every command call with bounds configured every element of the
\* clamped perturbed actions lies within [u_min, u_max], and with no bounds
\* configured the clamp is a no-op: it raises nothing and leaves the
\* perturbed actions as they are.
C4_ClampWithinBounds ==
    ret.op = "command" =>
        /\ self.u_min # None =>
              \A i \in 1..self.K : \A t \in 1..self.T : \A j \in 1..self.nu :
                  /\ FLe(self.u_min[j], self.perturbed_action[i][t][j])
                  /\ FLe(self.perturbed_action[i][t][j], self.u_max[j])
        /\ (self.u_min = None /\ self.u_max = None) => ret.err # ClampNone

\* a command on a controller without bounds raised at the clamp
C4_Witness ==
    /\ ret.op = "command" /\ ret.err = ClampNone
    /\ self.u_min = None /\ self.u_max = None

\* the action of the last sample of the controller s as it is stored after a
\* command whose null action was a: a itself if the clamp raised, else a clamped
NullStored(s, r, a) == IF r.err = ClampNone THEN a ELSE Clamp(a, s.u_min, s.u_max)

\* C5, as the code has it: with sample_null_action, in every command call the
\* last sample's action is, before clamping, zero at every timestep, whatever
\* u_init is; it is u_init only when u_init is zero, as by default.
C5_NullActionZero ==
    (ret.op = "command" /\ self.sample_null_action) =>
        \A t \in 1..self.T :
            self.perturbed_action[self.K][t] = NullStored(self, ret, VZeros(self.nu))

\* C5, as claimed: the last sample's action is, before clamping, u_init at
\* every timestep, for every configured u_init.
C5_NullActionInit ==
    (ret.op = "command" /\ self.sample_null_action) =>
        \A t \in 1..self.T :
            self.perturbed_action[self.K][t] = NullStored(self, ret, self.u_init)

\* a command with sample_null_action returned on a controller whose u_init is
\* not zero and whose bounds contain both zero and u_init
C5_Witness ==
    /\ ret.op = "command" /\ ret.err = ""
    /\ self.sample_null_action
    /\ self.u_init # VZeros(self.nu)
    /\ Clamp(self.u_init, self.u_min, self.u_max) = self.u_init
    /\ \A t \in 1..self.T : self.perturbed_action[self.K][t] = VZeros(self.nu)

\* C6: get_rollouts never changes U (nor any other field), for every state
\* and every num_rollouts, and a call that repeats the call before it, with
\* the same state and num_rollouts, raises or returns the same.
C6_GetRolloutsPure ==
    [][Calls("get_rollouts") =>
        /\ self'.U = self.U
        /\ self' = self
        /\ (/\ ret.op = "get_rollouts"
            /\ ret.state = ret'.state
            /\ ret.num_rollouts = ret'.num_rollouts) =>
               (ret'.err = ret.err /\ ret'.rollout = ret.rollout)]_vars

\* two calls were made, the last a get_rollouts that returned, no command
\* among them (no noise was drawn) and no reset (no draw is the U_init of the
\* defaults): get_rollouts was called twice, and U is still U_init
C6_Witness ==
    /\ calls >= 2
    /\ ret.op = "get_rollouts" /\ ret.err = ""
    /\ self.noise = None
    /\ self.U = DefaultArgs.U_init

\* C7: command accepts a single state (nx) and a batch of K states (K, nx),
\* and on both forms, for every K >= 1, with bounds configured, it returns
\* its pair of actions and rollout.
C7_BothFormsReturn ==
    (/\ ret.op = "command"
     /\ form \in {"single", "batch"}
     /\ self.u_min # None) => ret.err = ""

\* a command on a batch of K = 2 states raised in get_rollouts, after the
\* update of U
C7_Witness ==
    /\ ret.op = "command"
    /\ form = "batch" /\ self.K = 2
    /\ ret.where = "get_rollouts" /\ ret.err = "setitem: shape mismatch"
    /\ self.omega # None

\* some total cost of the controller s is infinite or NaN
NonFiniteCost(s) == \E i \in 1..s.K : ~IsFinite(s.cost_total[i])

\* C8: if one of the K total costs of a command call is not finite, the
\* weighted update is rejected: U stays as it was shifted, and no value that
\* is not finite enters U.
C8_NonFiniteRejected ==
    [][(Calls("command") /\ Updated(ret') /\ NonFiniteCost(self')) =>
        /\ self'.U = Shift(self.U, self.u_init)
        /\ \A t \in 1..self.T : \A j \in 1..self.nu : IsFinite(self'.U[t][j])]_vars

\* a command returned with a cost that is not finite and NaN in U and in the
\* action it returned
C8_Witness ==
    /\ ret.op = "command" /\ ret.err = ""
    /\ NonFiniteCost(self)
    /\ \E t \in 1..self.T : \E j \in 1..self.nu : IsNaN(self.U[t][j])
    /\ self.u_per_command = 1 /\ \E j \in 1..self.nu : IsNaN(ret.actions[j])

\* C9: a state that is neither (nx) nor (K, nx), passed to command or to
\* get_rollouts, makes the call raise, and a command raise before its update
\* of U.
C9_MismatchRaises ==
    (/\ ret.op \in {"command", "get_rollouts"}
     /\ form \in {"longer", "3d"}) => (ret.err # "" /\ ~Updated(ret))

\* a command on a state of shape (1, 1, nx) returned
C9_Witness ==
    /\ ret.op = "command" /\ ret.err = ""
    /\ form = "3d"
    /\ ret.state.shape = <<1, 1, self.nx>>

\* the bounds a controller stores when it is given only u_max, or only u_min,
\* are each other's negation
NegatedBounds(a) ==
    LET Negated(b) == b.u_min = VScale(R(-1), b.u_max) /\ b.u_max = VScale(R(-1), b.u_min)
    IN  (a.u_min = None) # (a.u_max = None) => Negated(Bounds(a.u_min, a.u_max))

\* C10: when only one of u_min and u_max is supplied the other is stored as
\* its negation, and for every combination of supplied bounds the stored
\* bounds, if set, satisfy u_min <= u_max elementwise.
C10_BoundsOrdered ==
    /\ \A c \in Cases : NegatedBounds(c.args)
    /\ self.u_min # None => \A j \in 1..self.nu : FLe(self.u_min[j], self.u_max[j])

\* a controller given only u_max = -1 stores u_min = 1 > u_max, and its
\* command returned with every perturbed action clamped to u_max
C10_Witness ==
    /\ self.u_min # None
    /\ \E j \in 1..self.nu : FLt(self.u_max[j], self.u_min[j])
    /\ ret.op = "command" /\ ret.err = ""
    /\ \A i \in 1..self.K : \A t \in 1..self.T : self.perturbed_action[i][t] = self.u_max

\* C11: a command that returns gives u_scale times the first u_per_command
\* entries of the post-update U, in order (all T of them when u_per_command
\* exceeds T, as the slice U[:u_per_command] has it), and the single action
\* vector itself, not a sequence of one, when u_per_command is 1.
C11_ReturnedActions ==
    (ret.op = "command" /\ ret.err = "") =>
        IF self.u_per_command = 1
        THEN /\ Len(ret.actions) = self.nu
             /\ \A j \in 1..self.nu : ret.actions[j] = FMul(self.u_scale, self.U[1][j])
        ELSE /\ Len(ret.actions) = IF self.u_per_command < self.T THEN self.u_per_command
                                   ELSE self.T
             /\ \A t \in 1..Len(ret.actions) : \A j \in 1..self.nu :
                    ret.actions[t][j] = FMul(self.u_scale, self.U[t][j])

\* a command with u_per_command = 2 and u_scale = 2 returned two different
\* actions, neither of them zero
C11_Witness ==
    /\ ret.op = "command" /\ ret.err = ""
    /\ self.u_per_command = 2 /\ self.u_scale = R(2)
    /\ Len(ret.actions) = 2
    /\ ret.actions[1] # ret.actions[2]
    /\ ret.actions[1] # VZeros(self.nu) /\ ret.actions[2] # VZeros(self.nu)

\* C12: after reset() U is exactly the T draws of the call, whatever U was
\* before and whatever calls preceded the reset: every controller that
\* receives the same draws holds the same U.
C12_ResetFresh ==
    ret.op = "reset" =>
        /\ self.U = ret.draw
        /\ Len(self.U) = self.T
        /\ \A t \in 1..self.T : self.U[t] \in Vectors(self.nu)

\* a reset came after a command that had updated U
C12_Witness ==
    /\ ret.op = "reset" /\ ret.after = "command"
    /\ self.omega # None
    /\ self.U = ret.draw

\* the controller s as two calls would find it that agree on U and on the
\* configuration and on nothing else: every attribute a call leaves behind
\* is as it is after construction
Scrub(s) ==
    [s EXCEPT !.state = NoTensor, !.cost_total = None, !.cost_total_non_zero = None,
              !.omega = None, !.states = None, !.actions = None, !.noise = None,
              !.perturbed_action = None]

\* C13: U is the only state carried across command calls.  Every command
\* call shifts U once and applies the weighted update once, and what it
\* raises or returns and the U it leaves are those of the same call, with the
\* same state argument and noise, on the controller without the attributes
\* that earlier calls left (state, noise, cost_total, omega, states, actions).
C13_OnlyUCarried ==
    [][Calls("command") =>
        \A r \in {ret'} : \A post \in {self'} :
            /\ \A c \in {Command(Scrub(self), r.state, r.draw)} :
                  /\ c.err = r.err /\ c.where = r.where
                  /\ c.actions = r.actions
                  /\ c.rollout = r.rollout
                  /\ c.self.U = post.U
            /\ post.U = IF Updated(r)
                        THEN Update(Shift(self.U, self.u_init), post.omega, post.noise)
                        ELSE Shift(self.U, self.u_init)]_vars

\* a command returned that came after a command, with weights that differ
C13_Witness ==
    /\ ret.op = "command" /\ ret.err = ""
    /\ ret.after = "command"
    /\ calls >= 2
    /\ \E i, k \in 1..self.K : self.omega[i] # self.omega[k]

\* the state t steps after the one state st under the nominal U: each step is
\* the dynamics boundary applied to the state before it and u_scale * U[t]
RECURSIVE NominalState(_, _, _)
NominalState(s, st, t) ==
    IF t = 0 THEN Ok(<<st.data>>)
    ELSE LET Next1(prev) ==
                 IF prev.err # "" THEN prev
                 ELSE Dynamics(s, prev.val, <<VScale(s.u_scale, s.U[t])>>, t - 1)
         IN  Next1(NominalState(s, st, t - 1))

\* the T successor states of the one state st under the nominal U
NominalSuccessors(s, st) == Eval([t \in 1..s.T |-> NominalState(s, st, t).val[1]])

\* C14: get_rollouts(state, num_rollouts) on a single state returns, for
\* every num_rollouts >= 1 and every nu, num_rollouts sequences, each the T
\* successor states of that state under the nominal U (state t+1 is the
\* dynamics applied to state t and u_scale * U[t]), the initial state excluded.
C14_ReplaysReplicated ==
    (ret.op = "get_rollouts" /\ form = "single") =>
        /\ ret.err = ""
        /\ Len(ret.rollout) = ret.num_rollouts
        /\ \A r \in 1..ret.num_rollouts :
              /\ Len(ret.rollout[r]) = self.T
              /\ ret.rollout[r] = NominalSuccessors(self, ret.state)

\* get_rollouts was called on a single state for two rollouts and raised
C14_Witness ==
    /\ ret.op = "get_rollouts" /\ form = "single"
    /\ ret.num_rollouts = 2
    /\ ret.err # ""

\* all the costs are one finite value
EqualFinite(cost) ==
    \A i \in 1..Len(cost) : IsFinite(cost[i]) /\ cost[i] = cost[1]

\* the arithmetic mean over the samples of the noise of timestep t
MeanNoise(noise, t) ==
    VScale(Rat(1, Len(noise)),
           Eval([j \in 1..Len(noise[1][t]) |->
                    FSum(Eval([i \in 1..Len(noise) |-> noise[i][t][j]]))]))

\* C15: whenever the K total costs of a command call are equal and finite,
\* every weight is 1/K and the update adds to each shifted U[t] the mean over
\* the K samples of the noise of timestep t.
C15_UniformWeights ==
    [][(Calls("command") /\ Updated(ret') /\ EqualFinite(self'.cost_total)) =>
        /\ \A i \in 1..self.K : self'.omega[i] = Rat(1, self.K)
        /\ \A u \in {Shift(self.U, self.u_init)} :
              self'.U = Eval([t \in 1..self.T |-> VAdd(u[t], MeanNoise(self'.noise, t))])]_vars

\* a command on two samples of different noise and one finite cost updated U
C15_Witness ==
    /\ ret.op = "command" /\ Updated(ret)
    /\ self.K = 2
    /\ EqualFinite(self.cost_total)
    /\ self.noise[1] # self.noise[2]
    /\ \E t \in 1..self.T : MeanNoise(self.noise, t) # VZeros(self.nu)

\* the bounds are such that the clamp of _compute_total_cost_batch returns
Clamps(s) == s.u_min # None \/ s.u_max # None

\* what the boundaries raise on the rollout of the sampled actions that the
\* controller s recorded, "" if both return: the dynamics on some step, or
\* else the cost on the recorded trajectories
BoundaryError(s) ==
    LET Cost(ro) ==
            IF ro.err # "" THEN ro.err
            ELSE IF s.trajectory_cost = "None" THEN ""
            ELSE CostError(s.trajectory_cost, Stack(s.K, ro.sts))
    IN  Cost(RolloutTo(s, StateBatch(s.K, s.nx, s.state), s.perturbed_action, s.T))

\* C16: an exception raised by the dynamics or by the cost during command is
\* not caught: command raises it from _compute_total_cost_batch and returns
\* no action and no rollout.
C16_BoundaryErrorsPropagate ==
    (ret.op = "command" /\ Clamps(self)) =>
        \A e \in {BoundaryError(self)} :
            e # "" => /\ ret.err = e
                      /\ ret.where = "_compute_total_cost_batch"
                      /\ ret.actions = <<>> /\ ret.rollout = <<>>

\* a command raised what the cost raised on the trajectories it recorded
C16_Witness ==
    /\ ret.op = "command" /\ Clamps(self)
    /\ ret.err = "trajectory_cost: state out of range"
    /\ BoundaryError(self) = ret.err

\* the control-effort cost of one sample: sum over t of
\* U[t] . (lambda * noise[t] @ noise_sigma_inv), on |noise| with noise_abs_cost
EffortCost(s, U, noise) ==
    FSum(Eval([t \in 1..Len(U) |->
        FSum(Eval([j \in 1..Len(U[t]) |->
            FMul(U[t][j],
                 VMatMul(VScale(s.lambda_, IF s.noise_abs_cost THEN VAbs(noise[t]) ELSE noise[t]),
                         s.noise_sigma_inv)[j])]))]))

\* the trajectory costs of the call that left the controller s, from the
\* states it recorded and the actions the cost boundary was given
RecordedCost(s) ==
    IF s.trajectory_cost = "None" THEN Eval([i \in 1..s.K |-> R(0)])
    ELSE TrajectoryCost(s.trajectory_cost, s.states,
                        Eval([i \in 1..s.K |-> Eval([t \in 1..s.T |->
                            VScale(s.u_scale, s.actions[i][t])])]))

\* the controller post is as a command leaves it whose noise, costs and
\* update are those of the effective noise clamp(p[i][t]) - U[t], where p
\* holds the perturbed actions and U is the shifted plan
UsesEffectiveNoise(U, p, post) ==
    /\ \A i \in 1..self.K : \A t \in 1..self.T :
          post.noise[i][t] = VSub(Clamp(p[i][t], self.u_min, self.u_max), U[t])
    /\ \A traj \in {RecordedCost(post)} : \A i \in 1..self.K :
          post.cost_total[i] = FAdd(FAdd(R(0), traj[i]), EffortCost(self, U, post.noise[i]))
    /\ post.U = Update(U, post.omega, post.noise)

\* C17 as stated: for every sample i and timestep t the noise used for the
\* control-effort cost and for the update is clamp(U_t + raw_noise_i,t) - U_t.
C17_EffectiveNoiseAll ==
    [][(Calls("command") /\ Updated(ret')) =>
        \A U \in {Shift(self.U, self.u_init)} : \A draw \in {ret'.draw} :
            \A p \in {Eval([i \in 1..self.K |-> Eval([t \in 1..self.T |->
                        VAdd(U[t], draw[i][t])])])} :
                \A post \in {self'} : UsesEffectiveNoise(U, p, post)]_vars

\* C17: the noise used for the control-effort cost and for the update is the
\* effective noise clamp(p_i,t) - U_t, where p_i,t is U_t + raw_noise_i,t, and
\* 0 for the last sample when the null action is sampled.
C17_EffectiveNoise ==
    [][(Calls("command") /\ Updated(ret')) =>
        \A U \in {Shift(self.U, self.u_init)} : \A draw \in {ret'.draw} :
            \A p \in {Eval([i \in 1..self.K |-> Eval([t \in 1..self.T |->
                        IF self.sample_null_action /\ i = self.K THEN VZeros(self.nu)
                        ELSE VAdd(U[t], draw[i][t])])])} :
                \A post \in {self'} : UsesEffectiveNoise(U, p, post)]_vars

\* a command updated U after a raw perturbation pushed an entry above u_max:
\* that entry was clamped to u_max and its noise is less than the raw noise
C17_Witness ==
    /\ ret.op = "command" /\ Updated(ret)
    /\ self.u_max # None
    /\ \E i \in 1..self.K : \E t \in 1..self.T : \E j \in 1..self.nu :
          /\ self.perturbed_action[i][t][j] = self.u_max[j]
          /\ FLt(self.noise[i][t][j], ret.draw[i][t][j])

\* the controller s has bounds, and they are ordered
Ordered(s) ==
    /\ s.u_min # None /\ s.u_max # None
    /\ \A j \in 1..s.nu : FLe(s.u_min[j], s.u_max[j])

\* some entry of the plan U of the controller s is a number outside
\* [u_min, u_max]
OutsideBounds(s) ==
    \E t \in 1..s.T : \E j \in 1..s.nu :
        /\ IsFinite(s.U[t][j])
        /\ FLt(s.U[t][j], s.u_min[j]) \/ FLt(s.u_max[j], s.U[t][j])

\* C18: with ordered bounds, the U that an updating command leaves is not
\* clamped again, and it is the weighted mean over the samples of the clamped
\* perturbed actions: no entry of it lies outside [u_min, u_max].
C18_UpdateWithinBounds ==
    (ret.op = "command" /\ Updated(ret) /\ Ordered(self)) =>
        /\ (\A i \in 1..self.K : IsFinite(self.omega[i])) =>
              \A t \in 1..self.T : \A j \in 1..self.nu :
                  self.U[t][j] = FSum(Eval([i \in 1..self.K |->
                        FMul(self.omega[i], self.perturbed_action[i][t][j])]))
        /\ ~OutsideBounds(self)

\* C18 as stated: with bounds configured the weighted update of a command can
\* push U outside the bounds.  Before any call is made there is a controller
\* to construct and a noise to draw such that a command updates U and leaves
\* an entry of it outside [u_min, u_max].
C18_UpdateLeavesBounds ==
    calls = 0 =>
        \E c \in Cases : \E s \in {Construct(c.args)} :
            \E nz \in SampleKT(s.K, s.T, s.nu) :
                \E r \in {Command(s, StateArg(s, c.form), nz)} :
                    /\ r.where # "_compute_total_cost_batch"
                    /\ Ordered(r.self)
                    /\ OutsideBounds(r.self)

\* a command updated U from a shifted plan with an entry below u_min, after
\* perturbed actions were clamped: the U it left reaches a bound and is inside
C18_Witness ==
    /\ ret.op = "command" /\ Updated(ret) /\ Ordered(self)
    /\ ret.after = "init"
    /\ \A i \in 1..self.K : IsFinite(self.omega[i])
    /\ \E i \in 1..self.K : \E t \in 1..self.T : self.noise[i][t] # ret.draw[i][t]
    /\ \E t \in 1..self.T : \E j \in 1..self.nu :
          /\ self.U[t][j] = self.u_min[j]
          /\ \A i \in 1..self.K : FLt(FSub(self.perturbed_action[i][t][j], self.noise[i][t][j]),
                                      self.u_min[j])

\* the controller post is as a command leaves it whose recorded states are
\* K by T, whose recorded actions are the clamped perturbed actions (the
\* scale divided out again), and whose total costs are those of a cost
\* boundary that was given the recorded states and the recorded actions
\* times the factor c
CostGiven(c, post) ==
    /\ Len(post.states) = self.K
    /\ \A i \in 1..self.K : Len(post.states[i]) = self.T
    /\ post.actions = post.perturbed_action
    /\ \A U \in {Shift(self.U, self.u_init)} :
         \A traj \in {TrajectoryCost(self.trajectory_cost, post.states,
                        Eval([i \in 1..self.K |-> Eval([t \in 1..self.T |->
                            VScale(c, post.actions[i][t])])]))} :
            \A i \in 1..self.K :
                post.cost_total[i] =
                    FAdd(FAdd(R(0), traj[i]), EffortCost(self, U, post.noise[i]))

\* C19 as stated: the action sequences handed to the cost boundary are the
\* recorded unscaled actions, the clamped perturbed actions without u_scale
\* applied, for every u_scale, together with the K by T recorded states.
C19_CostGetsUnscaledActions ==
    [][(Calls("command") /\ Updated(ret') /\ self.trajectory_cost # "None") =>
        \A post \in {self'} : CostGiven(R(1), post)]_vars

\* C19: the action sequences handed to the cost boundary are u_scale times the
\* clamped perturbed actions, those the dynamics was given, together with
\* the K by T recorded states; the actions the controller keeps recorded are
\* unscaled after the cost call.
C19_CostGetsScaledActions ==
    [][(Calls("command") /\ Updated(ret') /\ self.trajectory_cost # "None") =>
        \A post \in {self'} : CostGiven(self.u_scale, post)]_vars

\* a command with u_scale 2 and a cost of the actions recorded actions that
\* are not all zero
C19_Witness ==
    /\ ret.op = "command" /\ Updated(ret)
    /\ self.trajectory_cost = "abs_action"
    /\ self.u_scale = R(2)
    /\ \E i \in 1..self.K : \E t \in 1..self.T : self.actions[i][t] # VZeros(self.nu)

\* the calls of the dynamics boundary in the rollout ro of the sampled actions
\* that the controller s recorded: one per timestep up to a call that raised,
\* in increasing order of t; call k is given the state batch that call k - 1
\* returned (the first the K rows of the input state), u_scale times the
\* clamped perturbed actions of timestep k - 1, and k - 1 as a third argument
\* exactly when the dynamics is step dependent; the states are what the calls
\* returned
CalledInOrder(s, ro) ==
    /\ Len(ro.log) = IF ro.err = "" THEN s.T ELSE Len(ro.sts) + 1
    /\ Len(ro.log) <= s.T
    /\ Len(ro.sts) = IF ro.err = "" THEN s.T ELSE Len(ro.log) - 1
    /\ \A k \in 1..Len(ro.log) :
          /\ ro.log[k][1] = IF k = 1 THEN StateBatch(s.K, s.nx, s.state) ELSE ro.sts[k - 1]
          /\ Len(ro.log[k][1]) = s.K
          /\ ro.log[k][2] = Eval([i \in 1..s.K |-> VScale(s.u_scale, s.perturbed_action[i][k])])
          /\ Len(ro.log[k]) = IF s.step_dependency THEN 3 ELSE 2
          /\ s.step_dependency => ro.log[k][3] = k - 1
          /\ k <= Len(ro.sts) =>
                ro.sts[k] = F(s.F, s.nx, s.nu, ro.log[k][1], ro.log[k][2],
                              IF s.step_dependency THEN <<k - 1>> ELSE None).val

\* C20: during the K-sample rollout of a command the dynamics boundary is
\* called once per timestep t = 0, ..., T-1 in increasing order, each call with
\* the state batch the call before returned (the first with the K-row input
\* state batch), u_scale times the clamped perturbed actions of timestep t,
\* and t as a third argument exactly when the dynamics is step dependent; the
\* states the controller records are what these calls returned.
C20_DynamicsCalls ==
    (ret.op = "command" /\ Sampled(ret)) =>
        \A ro \in {RolloutTo(self, StateBatch(self.K, self.nx, self.state),
                             self.perturbed_action, self.T)} :
            /\ CalledInOrder(self, ro)
            /\ self.states = IF ro.err = "" THEN Stack(self.K, ro.sts) ELSE ro.sts
            /\ ro.err # "" => ret.err = ro.err

\* a command with a step-dependent dynamics returned after a rollout of two
\* timesteps on two samples
C20_Witness ==
    /\ ret.op = "command" /\ ret.err = ""
    /\ self.step_dependency
    /\ self.T >= 2 /\ self.K >= 2
    /\ Len(self.states[1]) = self.T

\* C21: the total cost of trajectory i computed in a command call is the
\* value of the cost boundary for trajectory i (0 when no cost boundary is
\* configured) plus the control-effort cost, lambda times the sum over t of
\* noise[i, t] (its absolute value with noise_abs_cost) times the inverse
\* noise covariance times U[t], where noise is the effective noise after the
\* clamp, perturbed_action - U, and U is the shifted nominal sequence.
C21_TotalCost ==
    [][(Calls("command") /\ Updated(ret')) =>
        \A U \in {Shift(self.U, self.u_init)} : \A post \in {self'} :
            \A traj \in {RecordedCost(post)} : \A i \in 1..self.K :
                /\ \A t \in 1..self.T :
                      post.noise[i][t] = VSub(post.perturbed_action[i][t], U[t])
                /\ post.cost_total[i] = FAdd(traj[i], EffortCost(self, U, post.noise[i]))]_vars

\* a command computed for some trajectory a non-zero value of the cost
\* boundary and a negative control-effort cost, on a noise that the clamp cut
C21_Witness ==
    /\ ret.op = "command" /\ Updated(ret)
    /\ self.trajectory_cost # "None"
    /\ \E i \in 1..self.K :
          /\ RecordedCost(self)[i] # R(0)
          /\ FLt(self.cost_total[i], RecordedCost(self)[i])
          /\ \E t \in 1..self.T : self.noise[i][t] # ret.draw[i][t]

\* the weighted mean over the samples of the clamped perturbed actions of
\* timestep t that the controller s holds
WeightedAction(s, t) ==
    Eval([j \in 1..s.nu |->
        FSum(Eval([i \in 1..s.K |-> FMul(s.omega[i], s.perturbed_action[i][t][j])]))])

\* C22: after every command call with finite costs each entry U[t] is the
\* weighted mean of the clamped perturbed actions, the sum over i of
\* omega[i] * perturbed_action[i, t]: what the update added to U[t] is the sum
\* over i of omega[i] * (perturbed_action[i, t] - U[t]), and the weights sum
\* to 1.
C22_WeightedMean ==
    (Updated(ret) /\ \A i \in 1..self.K : IsFinite(self.cost_total[i])) =>
        /\ FSum(self.omega) = R(1)
        /\ \A t \in 1..self.T :
              /\ self.U[t] = WeightedAction(self, t)
              /\ \A before \in {VSub(self.U[t], WeightedNoise(self, t))} :
                    \A i \in 1..self.K :
                        self.noise[i][t] = VSub(self.perturbed_action[i][t], before)

\* a command with finite costs left an entry of U that is the perturbed action
\* of no sample and is not the entry the update started from
C22_Witness ==
    /\ Updated(ret) /\ \A i \in 1..self.K : IsFinite(self.cost_total[i])
    /\ \E t \in 1..self.T :
          /\ \A i \in 1..self.K : self.U[t] # self.perturbed_action[i][t]
          /\ WeightedNoise(self, t) # VZeros(self.nu)
          /\ self.U[t] = WeightedAction(self, t)

\* what the dynamics and the cost boundary raise
BoundaryErrors ==
    {"dynamics: shape mismatch", "dynamics: expected a batch",
     "trajectory_cost: state out of range"}

\* the plan of the controller s advanced by one step: entry t is entry t + 1,
\* and the last entry is u_init
Advanced(s) == Eval([t \in 1..s.T |-> IF t < s.T THEN s.U[t + 1] ELSE s.u_init])

\* C23 as stated: if the dynamics or the cost boundary raises during command,
\* U is not restored and no weighted update is applied: the controller is left
\* with U equal to the pre-call U shifted left by one with u_init appended.
C23_FailedCallShiftedOnly ==
    [][(Calls("command") /\ ret'.err \in BoundaryErrors) =>
        self'.U = Advanced(self)]_vars

\* C23: if the dynamics or the cost boundary raises in the sampling of
\* command, in _compute_total_cost_batch, U is not restored and no weighted
\* update is applied: the controller is left with the pre-call U shifted left
\* by one with u_init appended, and with the weights it had.  If the dynamics
\* raises in the get_rollouts that ends command, the weighted update has
\* been applied to the shifted U.
C23_FailedCallAdvances ==
    [][(Calls("command") /\ ret'.err \in BoundaryErrors) =>
        \A U \in {Advanced(self)} : \A post \in {self'} :
            IF ret'.where = "_compute_total_cost_batch"
            THEN /\ post.U = U
                 /\ post.omega = self.omega
                 /\ post.cost_total_non_zero = self.cost_total_non_zero
            ELSE /\ ret'.where = "get_rollouts"
                 /\ post.U = Update(U, post.omega, post.noise)]_vars

\* the second of two commands in which the cost boundary raised: the plan
\* has advanced by two steps, to u_init in both entries of a horizon of two
C23_Witness ==
    /\ ret.op = "command" /\ ret.after = "command"
    /\ ret.err = "trajectory_cost: state out of range"
    /\ ret.where = "_compute_total_cost_batch"
    /\ self.omega = None
    /\ self.T = 2
    /\ \A t \in 1..self.T : self.U[t] = self.u_init

\* C24: for every finite cost batch in command a trajectory of minimum cost
\* has the unnormalised weight exactly 1 and every unnormalised weight lies
\* in [0, 1], so that the normaliser eta satisfies 1 <= eta <= K and the
\* normalisation never divides by zero: the weights are finite.
C24_EtaRange ==
    (Updated(ret) /\ \A i \in 1..self.K : IsFinite(self.cost_total[i])) =>
        /\ \A i \in 1..self.K :
              (\A k \in 1..self.K : FLe(self.cost_total[i], self.cost_total[k])) =>
                  self.cost_total_non_zero[i] = R(1)
        /\ \E i \in 1..self.K : self.cost_total_non_zero[i] = R(1)
        /\ \A i \in 1..self.K :
              /\ FLe(R(0), self.cost_total_non_zero[i])
              /\ FLe(self.cost_total_non_zero[i], R(1))
        /\ \A eta \in {FSum(self.cost_total_non_zero)} :
              /\ FLe(R(1), eta) /\ FLe(eta, R(self.K))
              /\ \A i \in 1..self.K :
                    /\ IsFinite(self.omega[i])
                    /\ FMul(eta, self.omega[i]) = self.cost_total_non_zero[i]

\* a command on finite costs that differ gave one trajectory the
\* unnormalised weight 1 and another a weight below 1: eta lies strictly
\* between 1 and K
C24_Witness ==
    /\ Updated(ret) /\ \A i \in 1..self.K : IsFinite(self.cost_total[i])
    /\ self.K = 2
    /\ \E i, k \in 1..self.K :
          /\ FLt(self.cost_total[i], self.cost_total[k])
          /\ self.cost_total_non_zero[i] = R(1)
          /\ FLt(R(0), self.cost_total_non_zero[k])
          /\ FLt(self.cost_total_non_zero[k], R(1))
    /\ FLt(R(1), FSum(self.cost_total_non_zero))
    /\ FLt(FSum(self.cost_total_non_zero), R(self.K))

\* C25: do_episode returns only after an episode whose last executed loop
\* index t is at least 5, and it returns the pair (not info['success'] of the
\* last step of that episode, that t); the data it leaves are those of that
\* episode alone.  An episode that ends, by done or at the horizon, with t < 5
\* is discarded: the next thing done is a reset_episode, which empties the
\* data.  If no episode can reach t = 5, do_episode does not return.
C25_ReturnsAfterFive ==
    [][\A a \in {agent} : \A b \in {agent'} :
        /\ (b.pc = "returned") =>
              /\ a.pc = "after" /\ a.steps >= 1
              /\ a.t = <<(a.steps - 1) * a.actions_per_loop>>
              /\ a.t[1] >= 5
              /\ b.result = <<~a.info[1].success, a.t[1]>>
              /\ b.gt_state_history = a.steps + 1
        /\ (a.pc = "after" /\ a.t # None /\ a.t[1] < 5) =>
              /\ b.pc = "while" /\ b.result = None
        /\ (a.pc = "while") =>
              \/ b.pc = "raised"
              \/ b.pc = "for" /\ b.steps = 0 /\ b.gt_state_history = 1
        /\ (\A k \in 0..(a.episode_T - 1) : k % a.actions_per_loop = 0 => k < 5) =>
              b.pc # "returned"]_vars

\* do_episode returned after it had discarded an episode that ended before
\* t reached 5
C25_Witness ==
    /\ agent.pc = "returned"
    /\ agent.episodes >= 2
    /\ agent.result[2] >= 5
    /\ agent.result[1]

====
